---- MODULE Spec2Model ----
(***************************************************************************)
(* Model of the interview session orchestration of backend/server.py:      *)
(* one InterviewSession driven by the receive loop of websocket_interview  *)
(* (task Main) and by the _screen_share_timeout_checker tasks that         *)
(* handle_screen_share_lost creates (tasks 1..MaxTimers).                  *)
(*                                                                         *)
(* The tasks are asyncio coroutines on one event loop: a task runs until   *)
(* it suspends in a collaborator call (transcription, evaluation, speech,  *)
(* vision, summary, PDF executor), in asyncio.sleep, in websocket.receive  *)
(* or in the acquire of a held lock.  `running' is the task the event loop *)
(* is executing, NoTask when every task is suspended.  Each task carries   *)
(* its call stack of code positions; the head is the position the task is  *)
(* at.                                                                     *)
(*                                                                         *)
(* Time is in seconds and passes only while no task runs.  A time stamp    *)
(* field (x = time.time()) is kept as the seconds elapsed since it was     *)
(* taken, so time.time() - x is the field itself; it stops growing at the  *)
(* interval the code compares it with.  A sleeping task keeps the seconds  *)
(* its sleep still lasts.                                                  *)
(***************************************************************************)
EXTENDS Integers, Sequences, FiniteSets, TLC

\* ---- bounds of the model -------------------------------------------------
MaxMsgs == 3        \* inbound messages the receive loop takes
MaxTimers == 2      \* timeout checker tasks that can be created
MaxFrames == 4      \* calls of VisionProcessor.process_frame
MaxSessions == 3    \* sessions created in the process
MaxClock == 4       \* half seconds the process clock runs

\* ---- program constants ---------------------------------------------------
min_question_interval == 8
screen_reconnect_timeout == 30
FlushInterval == 3
MinAudioBytes == 16000
FinalizeWords == 8
change_threshold == 10     \* Config.VISION_CHANGE_THRESHOLD, in percent
min_interval == 3          \* Config.VISION_MIN_INTERVAL, in seconds

Main == 0
Timers == 1..MaxTimers
Tasks == {Main} \cup Timers
NoTask == 0 - 1
\* the connections websockets.connect can return to one DeepgramStreamClient;
\* a connection is named by its number, its receive task likewise
MaxConnections == 3
Connections == 1..MaxConnections
\* None in _ws and _receive_task
NoConnection == 0
\* the application tasks that use the client: one connects and disconnects,
\* one streams the audio
Callers == {"control", "audio"}

\* Python's None in an Optional[float] field
None == 0 - 1
\* last_question_time = 0: no question was asked yet
Never == 0 - 1

NoTranscript == [w |-> 0, q |-> FALSE]
\* what the transcription collaborator can return for a drained buffer:
\* a fragment of w words; q: the participant asks the AI a direct question
Fragments == {[w |-> 4, q |-> FALSE], [w |-> 8, q |-> FALSE], [w |-> 8, q |-> TRUE]}
ChunkSizes == {8000, 16000}
\* what vision.process_frame can describe a frame with: a text, represented
\* by its number of characters, at the display limit and one beyond it
DisplayLimit == 200
Descriptions == {DisplayLimit, DisplayLimit + 1}

\* the text shown whole
Context_whole(analysis) == [chars |-> analysis, ellipsis |-> FALSE]

\* analysis[:200] + "..." if len(analysis) > 200 else analysis
Context(analysis) ==
    IF analysis > DisplayLimit
    THEN [chars |-> DisplayLimit, ellipsis |-> TRUE]
    ELSE [chars |-> analysis, ellipsis |-> FALSE]

\* inbound messages: the type and, for audio, the size of the decoded chunk.
\* Besides the types the loop dispatches on and the transport's disconnect
\* there are the malformed text payloads: text json.loads rejects
\* ("invalid_json"), JSON that is not an object ("non_object": an array, a
\* string, a number, null) and an object whose type is missing or unknown
\* ("unknown_type").
Malformed == {"invalid_json", "non_object", "unknown_type"}
MessageTypes == {"audio", "video", "screen_share_lost", "screen_share_restored",
                 "generate_report", "stop", "user_speaking", "disconnect"}
                \cup Malformed
Messages == {[type |-> "audio", data |-> c] : c \in ChunkSizes}
            \cup {[type |-> ty, data |-> 0] : ty \in MessageTypes \ {"audio"}}
NoMessage == [type |-> "none", data |-> 0]

VARIABLES
    self,       \* the fields of the InterviewSession
    lock,       \* _response_lock: owner and FIFO of waiting tasks
    tasks,      \* per task: call stack and the locals that live across awaits
    running,    \* the task the event loop is executing, or NoTask
    ntimers,    \* timeout checker tasks created so far
    nmsgs,      \* messages received so far
    sent,       \* the outbound events the last step of a task sent, in order
    status,     \* state of the last status event sent
    obs,        \* observations about the run the properties refer to
    vision,     \* the VisionProcessor and its process_frame call
    storage,    \* the process: its clock, the sessions created, the records
    deepgram    \* the DeepgramStreamClient and the tasks that use it

vars == <<self, lock, tasks, running, ntimers, nmsgs, sent, status, obs,
          vision, storage, deepgram>>
\* the session and its tasks
session == <<self, lock, tasks, running, ntimers, nmsgs, sent, status, obs>>
\* what stands beside the session; the orchestration actions abstract from
\* them (the outcome of the vision call is an input of handle_video_frame)
components == <<vision, storage, deepgram>>

\* ---- helpers -------------------------------------------------------------
Top(t) == Head(tasks[t].stack)
At(t, l) == tasks[t].stack # <<>> /\ Top(t) = l
\* task t is executing at position l
Exec(t, l) == running = t /\ At(t, l)
\* task t is ready to run: a created task that has not run yet, or the
\* waiter the lock was handed to.  The event loop runs the ready tasks before
\* it waits for I/O or for a timer.
Ready(t) ==
    \/ At(t, "tc_start")
    \/ At(t, "gr_wait") /\ lock.owner = t
NoneReady == \A u \in Tasks : ~Ready(u)
\* task t is suspended at position l and the event loop is free to resume it
Susp(t, l) == running = NoTask /\ At(t, l) /\ (Ready(t) \/ NoneReady)
\* position l is somewhere on the call stack of t
Inside(t, l) == \E i \in 1..Len(tasks[t].stack) : tasks[t].stack[i] = l

Goto(tk, t, l) == [tk EXCEPT ![t].stack = <<l>> \o Tail(@)]
Call(tk, t, callee, ret) == [tk EXCEPT ![t].stack = <<callee, ret>> \o Tail(@)]
Return(tk, t) == [tk EXCEPT ![t].stack = Tail(@)]

\* a time stamp grows to one second beyond the interval it is compared with
QuestionCap == min_question_interval + 1
FlushCap == FlushInterval + 1
\* time.time() - stamp
TimeSince(stamp, cap) == IF stamp = Never THEN cap ELSE stamp
\* a second passes for a time stamp
Older(stamp, cap) ==
    IF stamp \in {Never, None} THEN stamp
    ELSE IF stamp < cap THEN stamp + 1 ELSE cap

\* datetime.now().strftime("%Y%m%d_%H%M%S"): the time in whole seconds; the
\* clock counts half seconds
SessionId(now) == now \div 2
SessionIds == {SessionId(now) : now \in 0..MaxClock}

Init ==
    /\ self = [is_active |-> FALSE, is_ai_speaking |-> FALSE,
               screen_context |-> 0, screen_contexts |-> <<>>,
               history |-> <<>>, slide_count |-> 0,
               audio_chunks |-> <<>>, last_transcript_time |-> 0,
               accumulated_transcript |-> NoTranscript,
               last_question_time |-> Never, pending_response |-> FALSE,
               screen_share_active |-> FALSE, screen_share_lost_time |-> None,
               awaiting_screen_reshare |-> FALSE, is_stopped |-> FALSE]
    /\ lock = [owner |-> NoTask, waiters |-> <<>>]
    /\ tasks = [t \in Tasks |->
                  [stack |-> IF t = Main THEN <<"start", "ws_loop">> ELSE <<>>,
                   msg |-> NoMessage, auto_ended |-> FALSE,
                   transcript |-> NoTranscript,
                   summary |-> "none", pdf_path |-> FALSE,
                   sleep |-> 0, loss |-> 0, fired |-> FALSE]]
    /\ running = Main
    /\ ntimers = 0
    /\ nmsgs = 0
    /\ sent = <<>>
    /\ status = "none"
    /\ obs = [loss_n |-> 0, restored |-> {}, restored_early |-> {},
              stop_by |-> NoTask, stop_auto |-> FALSE, stop_returned |-> FALSE,
              stops |-> 0, stop_turns |-> 0, explicit_stop |-> FALSE,
              auto_reports |-> 0, stopped |-> 0, summaries |-> 0, completes |-> 0,
              eval_now |-> FALSE, eval_spoken |-> FALSE,
              context |-> Context(0)]
    /\ vision = [last_frame |-> None, last_analysis |-> "",
                 last_api_call |-> Never,
                 pc |-> "idle", frame |-> None, now |-> 0,
                 returned |-> [should_analyze |-> FALSE, analysis |-> "None"],
                 outcome |-> "none", frames |-> 0]
    /\ storage = [clock |-> 0, sessions |-> <<>>,
                  files |-> [id \in SessionIds |-> 0]]
    /\ deepgram = [_is_connected |-> FALSE, _ws |-> NoConnection,
                   _receive_task |-> NoConnection, made |-> 0,
                   pc |-> [c \in Callers |-> "idle"],
                   loop |-> [r \in Connections |-> "none"],
                   disconnected |-> FALSE]

\* ---- InterviewSession.speak_response ------------------------------------
\* is_ai_speaking = True, status speaking, then suspended in the speech
\* collaborator
speak_response(t) ==
    /\ Exec(t, "speak")
    /\ self' = [self EXCEPT !.is_ai_speaking = TRUE]
    /\ status' = "speaking"
    /\ sent' = <<>>
    /\ tasks' = Goto(tasks, t, "speak_tts")
    /\ running' = NoTask
    /\ UNCHANGED <<lock, ntimers, nmsgs, obs, components>>

\* speak_response without the status listening of its finally block
speak_response_done_mute(t) ==
    /\ Susp(t, "speak_tts")
    /\ \E ok \in BOOLEAN :
         sent' = IF ok THEN <<"audio_chunk", "audio_end">> ELSE <<>>
    /\ self' = [self EXCEPT !.is_ai_speaking = FALSE]
    /\ tasks' = Return(tasks, t)
    /\ running' = t
    /\ UNCHANGED <<lock, ntimers, nmsgs, status, obs, components>>

\* speak_response recording an ask for whatever it has spoken
speak_response_done_stamping(t) ==
    /\ Susp(t, "speak_tts")
    /\ \E ok \in BOOLEAN :
         sent' = IF ok THEN <<"audio_chunk", "audio_end">> ELSE <<>>
    /\ self' = [self EXCEPT !.is_ai_speaking = FALSE,
                            !.last_question_time = 0]
    /\ status' = "listening"
    /\ tasks' = Return(tasks, t)
    /\ running' = t
    /\ UNCHANGED <<lock, ntimers, nmsgs, obs, components>>

\* the speech collaborator returned audio (ok) or nothing/raised; finally
\* is_ai_speaking = False and status listening
speak_response_done(t) ==
    /\ Susp(t, "speak_tts")
    /\ \E ok \in BOOLEAN :
         sent' = IF ok THEN <<"audio_chunk", "audio_end">> ELSE <<>>
    /\ self' = [self EXCEPT !.is_ai_speaking = FALSE]
    /\ status' = "listening"
    /\ tasks' = Return(tasks, t)
    /\ running' = t
    /\ UNCHANGED <<lock, ntimers, nmsgs, obs, components>>

\* ---- InterviewSession.start ---------------------------------------------
start(t) ==
    /\ Exec(t, "start")
    /\ self' = [self EXCEPT !.is_active = TRUE, !.screen_share_active = TRUE]
    /\ status' = "thinking"
    /\ sent' = <<>>
    /\ tasks' = Goto(tasks, t, "start_opening")
    /\ running' = NoTask
    /\ UNCHANGED <<lock, ntimers, nmsgs, obs, components>>

\* start() recording last_question_time when it emits the opening
start_opening_early(t) ==
    /\ Susp(t, "start_opening")
    /\ sent' = <<"ai_message_opening">>
    /\ self' = [self EXCEPT !.last_question_time = 0]
    /\ tasks' = Call(tasks, t, "speak", "start_spoken")
    /\ running' = t
    /\ UNCHANGED <<lock, ntimers, nmsgs, status, obs, components>>

\* brain.generate_opening returned the opening or, when its call failed, its
\* fallback text
start_opening(t) ==
    /\ Susp(t, "start_opening")
    /\ sent' = <<"ai_message_opening">>
    /\ tasks' = Call(tasks, t, "speak", "start_spoken")
    /\ running' = t
    /\ UNCHANGED <<self, lock, ntimers, nmsgs, status, obs, components>>

start_spoken(t) ==
    /\ Exec(t, "start_spoken")
    /\ self' = [self EXCEPT !.last_question_time = 0]
    /\ sent' = <<>>
    /\ tasks' = Return(tasks, t)
    /\ UNCHANGED <<lock, running, ntimers, nmsgs, status, obs, components>>

\* ---- the response lock (asyncio.Lock) -----------------------------------
\* a release that wakes nobody
Release_unheard(l) == [owner |-> NoTask, waiters |-> l.waiters]

\* release hands the lock to the first waiter, if any
Release(l) ==
    IF l.waiters = <<>> THEN [owner |-> NoTask, waiters |-> <<>>]
    ELSE [owner |-> Head(l.waiters), waiters |-> Tail(l.waiters)]

\* ---- InterviewSession.handle_audio_chunk --------------------------------
\* a flush on every chunk, whatever the time since the last drain
FlushDue_always(last_transcript_time, chunks) == chunks # <<>>

\* time.time() - self.last_transcript_time >= 3.0 and self.audio_chunks
FlushDue(last_transcript_time, chunks) ==
    last_transcript_time >= FlushInterval /\ chunks # <<>>

\* handle_audio_chunk without the test of is_active
handle_audio_chunk_unguarded(t) ==
    /\ Exec(t, "audio")
    /\ LET chunks == Append(self.audio_chunks, tasks[t].msg.data) IN
         /\ self' = [self EXCEPT !.audio_chunks = chunks]
         /\ IF FlushDue(self.last_transcript_time, chunks)
            THEN tasks' = Goto(tasks, t, "paa")
            ELSE tasks' = Return(tasks, t)
    /\ sent' = <<>>
    /\ UNCHANGED <<lock, running, ntimers, nmsgs, status, obs, components>>

handle_audio_chunk(t) ==
    /\ Exec(t, "audio")
    /\ IF ~self.is_active
       THEN /\ tasks' = Return(tasks, t)
            /\ UNCHANGED self
       ELSE LET chunks == Append(self.audio_chunks, tasks[t].msg.data) IN
            /\ self' = [self EXCEPT !.audio_chunks = chunks]
            /\ IF FlushDue(self.last_transcript_time, chunks)
               THEN tasks' = Goto(tasks, t, "paa")
               ELSE tasks' = Return(tasks, t)
    /\ sent' = <<>>
    /\ UNCHANGED <<lock, running, ntimers, nmsgs, status, obs, components>>

RECURSIVE SumSeq(_)
SumSeq(s) == IF s = <<>> THEN 0 ELSE Head(s) + SumSeq(Tail(s))

\* ---- InterviewSession.process_accumulated_audio -------------------------
\* no drain is too small for the transcription
TooSmall_never(combined_audio) == FALSE

\* len(combined_audio) < 16000
TooSmall(combined_audio) == combined_audio < MinAudioBytes

\* the drain that leaves the chunks in the buffer
process_accumulated_audio_keeping(t) ==
    /\ Exec(t, "paa")
    /\ IF self.audio_chunks = <<>>
       THEN /\ tasks' = Return(tasks, t)
            /\ UNCHANGED <<self, running>>
       ELSE LET combined_audio == SumSeq(self.audio_chunks) IN
            /\ self' = [self EXCEPT !.last_transcript_time = 0]
            /\ IF TooSmall(combined_audio)
               THEN /\ tasks' = Return(tasks, t)
                    /\ UNCHANGED running
               ELSE /\ tasks' = Goto(tasks, t, "paa_transcribed")
                    /\ running' = NoTask
    /\ sent' = <<>>
    /\ UNCHANGED <<lock, ntimers, nmsgs, status, obs, components>>

\* drain the buffer, stamp the flush time, and suspend in the transcription
\* collaborator unless the combined audio is too small
process_accumulated_audio(t) ==
    /\ Exec(t, "paa")
    /\ IF self.audio_chunks = <<>>
       THEN /\ tasks' = Return(tasks, t)
            /\ UNCHANGED <<self, running>>
       ELSE LET combined_audio == SumSeq(self.audio_chunks) IN
            /\ self' = [self EXCEPT !.audio_chunks = <<>>,
                                    !.last_transcript_time = 0]
            /\ IF TooSmall(combined_audio)
               THEN /\ tasks' = Return(tasks, t)
                    /\ UNCHANGED running
               ELSE /\ tasks' = Goto(tasks, t, "paa_transcribed")
                    /\ running' = NoTask
    /\ sent' = <<>>
    /\ UNCHANGED <<lock, ntimers, nmsgs, status, obs, components>>

Accumulate(acc, f) == [w |-> acc.w + f.w, q |-> acc.q \/ f.q]

\* finalization only above the threshold
Finalizes_above(acc) == acc.w > FinalizeWords

\* word_count >= 8
Finalizes(acc) == acc.w >= FinalizeWords

\* the transcription returned: nothing (None) or a fragment
process_accumulated_audio_done(t) ==
    /\ Susp(t, "paa_transcribed")
    /\ running' = t
    /\ \E transcript \in Fragments \cup {NoTranscript} :
         IF transcript = NoTranscript
         THEN /\ tasks' = Return(tasks, t)
              /\ sent' = <<>>
              /\ UNCHANGED self
         ELSE LET acc == Accumulate(self.accumulated_transcript, transcript) IN
              /\ sent' = <<"transcript_interim">>
              /\ self' = [self EXCEPT !.accumulated_transcript = acc]
              /\ IF Finalizes(acc)
                 THEN tasks' = Goto(tasks, t, "fin")
                 ELSE tasks' = Return(tasks, t)
    /\ UNCHANGED <<lock, ntimers, nmsgs, status, obs, components>>

\* ---- InterviewSession.finalize_transcript -------------------------------
finalize_transcript(t) ==
    /\ Exec(t, "fin")
    /\ IF self.accumulated_transcript.w = 0
       THEN /\ tasks' = Return(tasks, t)
            /\ sent' = <<>>
            /\ UNCHANGED self
       ELSE /\ tasks' = [Goto(tasks, t, "gr") EXCEPT
                            ![t].transcript = self.accumulated_transcript]
            /\ self' = [self EXCEPT !.accumulated_transcript = NoTranscript]
            /\ sent' = <<"transcript_final">>
    /\ UNCHANGED <<lock, running, ntimers, nmsgs, status, obs, components>>

\* ---- InterviewSession.generate_response ---------------------------------
\* what the evaluation collaborator can return for a transcript: the
\* presenter_asked_question mark (set for a direct question), the response
\* type, and whether the response text is non-empty
ResponseTypes == {"question", "acknowledgment", "proceed"}
Evaluations(transcript) ==
    {[presenter_asked_question |-> transcript.q, response_type |-> r,
      next_response |-> n] : r \in ResponseTypes, n \in BOOLEAN}

\* generate_response without the lock: every caller enters at once
generate_response_unlocked(t) ==
    /\ Exec(t, "gr")
    /\ lock' = [lock EXCEPT !.owner = t]
    /\ tasks' = Goto(tasks, t, "gr_locked")
    /\ sent' = <<>>
    /\ UNCHANGED <<self, running, ntimers, nmsgs, status, obs, components>>

\* async with self._response_lock: enter, or queue behind the holder
generate_response(t) ==
    /\ Exec(t, "gr")
    /\ IF lock.owner = NoTask
       THEN /\ lock' = [lock EXCEPT !.owner = t]
            /\ tasks' = Goto(tasks, t, "gr_locked")
            /\ UNCHANGED running
       ELSE /\ lock' = [lock EXCEPT !.waiters = Append(@, t)]
            /\ tasks' = Goto(tasks, t, "gr_wait")
            /\ running' = NoTask
    /\ sent' = <<>>
    /\ UNCHANGED <<self, ntimers, nmsgs, status, obs, components>>

\* the lock was handed to the waiting task
generate_response_acquired(t) ==
    /\ Susp(t, "gr_wait")
    /\ lock.owner = t
    /\ tasks' = Goto(tasks, t, "gr_locked")
    /\ running' = t
    /\ sent' = <<>>
    /\ UNCHANGED <<self, lock, ntimers, nmsgs, status, obs, components>>

\* the pacing test with <= for <: a call exactly at the boundary is blocked
TooSoon_inclusive(last_question_time) ==
    /\ TimeSince(last_question_time, QuestionCap) <= min_question_interval
    /\ last_question_time # Never

\* the pacing test of generate_response
TooSoon(last_question_time) ==
    /\ TimeSince(last_question_time, QuestionCap) < min_question_interval
    /\ last_question_time # Never

\* inside the lock: pacing check, then suspended in brain.evaluate
generate_response_locked(t) ==
    /\ Exec(t, "gr_locked")
    /\ IF TooSoon(self.last_question_time)
       THEN /\ lock' = Release(lock)
            /\ tasks' = Return(tasks, t)
            /\ UNCHANGED <<running, status, obs>>
       ELSE /\ status' = "thinking"
            /\ tasks' = Goto(tasks, t, "gr_eval")
            /\ running' = NoTask
            /\ obs' = [obs EXCEPT !.eval_now = TRUE, !.eval_spoken = FALSE]
            /\ UNCHANGED lock
    /\ sent' = <<>>
    /\ UNCHANGED <<self, ntimers, nmsgs, components>>

\* the Turn numbered with the count before its increment
Turn_stale(slide_count, transcript) ==
    [slide |-> slide_count - 1, transcript |-> transcript]

\* the Turn appended for an evaluation
Turn(slide_count, transcript) ==
    [slide |-> slide_count, transcript |-> transcript]

\* every proceed is skipped, pending question or not
Skips_proceed(evaluation, pending_response) ==
    /\ ~evaluation.presenter_asked_question
    /\ evaluation.response_type = "proceed"

\* not presenter_asked_question, response_type proceed and pending_response
Skips(evaluation, pending_response) ==
    /\ ~evaluation.presenter_asked_question
    /\ evaluation.response_type = "proceed"
    /\ pending_response

\* brain.evaluate returned: skip a proceed while a question is pending,
\* else append the Turn, send the evaluation and speak the response text
generate_response_evaluated(t) ==
    /\ Susp(t, "gr_eval")
    /\ running' = t
    /\ \E evaluation \in Evaluations(tasks[t].transcript) :
         IF Skips(evaluation, self.pending_response)
         THEN /\ status' = "listening"
              /\ sent' = <<>>
              /\ lock' = Release(lock)
              /\ tasks' = Return(tasks, t)
              /\ UNCHANGED <<self, obs>>
         ELSE /\ self' = [self EXCEPT
                    !.slide_count = @ + 1,
                    !.history = Append(@, Turn(self.slide_count + 1,
                                               tasks[t].transcript))]
              /\ sent' = <<"evaluation">>
              /\ IF evaluation.next_response
                 THEN /\ tasks' = Call(tasks, t, "speak", "gr_spoken")
                      /\ obs' = [obs EXCEPT !.eval_spoken = TRUE]
                      /\ UNCHANGED <<lock, status>>
                 ELSE /\ status' = "listening"
                      /\ lock' = Release(lock)
                      /\ tasks' = Return(tasks, t)
                      /\ UNCHANGED obs
    /\ UNCHANGED <<ntimers, nmsgs, components>>

\* brain.evaluate raised: the except branch sends the error and status
\* listening, and the lock is left
generate_response_failed(t) ==
    /\ Susp(t, "gr_eval")
    /\ running' = t
    /\ status' = "listening"
    /\ sent' = <<"error">>
    /\ lock' = Release(lock)
    /\ tasks' = Return(tasks, t)
    /\ UNCHANGED <<self, ntimers, nmsgs, obs, components>>

\* the response was spoken, but the ask is not recorded
generate_response_spoken_unrecorded(t) ==
    /\ Exec(t, "gr_spoken")
    /\ self' = [self EXCEPT !.pending_response = TRUE]
    /\ lock' = Release(lock)
    /\ tasks' = Return(tasks, t)
    /\ sent' = <<>>
    /\ UNCHANGED <<running, ntimers, nmsgs, status, obs, components>>

\* the response was spoken: record the ask and leave the lock
generate_response_spoken(t) ==
    /\ Exec(t, "gr_spoken")
    /\ self' = [self EXCEPT !.last_question_time = 0,
                            !.pending_response = TRUE]
    /\ lock' = Release(lock)
    /\ tasks' = Return(tasks, t)
    /\ sent' = <<>>
    /\ UNCHANGED <<running, ntimers, nmsgs, status, obs, components>>

\* ---- InterviewSession.handle_video_frame --------------------------------
handle_video_frame(t) ==
    /\ Exec(t, "video")
    /\ IF ~self.is_active
       THEN /\ tasks' = Return(tasks, t)
            /\ UNCHANGED running
       ELSE /\ tasks' = Goto(tasks, t, "video_done")
            /\ running' = NoTask
    /\ sent' = <<>>
    /\ UNCHANGED <<self, lock, ntimers, nmsgs, status, obs, components>>

\* vision.process_frame returned: no change (0) or a description
handle_video_frame_done(t) ==
    /\ Susp(t, "video_done")
    /\ running' = t
    /\ tasks' = Return(tasks, t)
    /\ \E analysis \in {0} \cup Descriptions :
         IF analysis # 0
         THEN /\ self' = [self EXCEPT !.screen_context = analysis,
                                      !.screen_contexts = Append(@, analysis)]
              /\ sent' = <<"screen_update">>
              /\ obs' = [obs EXCEPT !.context = Context(analysis)]
         ELSE /\ sent' = <<>>
              /\ UNCHANGED <<self, obs>>
    /\ UNCHANGED <<lock, ntimers, nmsgs, status, components>>

\* ---- InterviewSession.handle_screen_share_lost --------------------------
\* the handler without the is_active half of its guard
handle_screen_share_lost_inactive(t) ==
    /\ Exec(t, "lost")
    /\ IF self.awaiting_screen_reshare
       THEN /\ tasks' = Return(tasks, t)
            /\ sent' = <<>>
            /\ UNCHANGED <<self, obs>>
       ELSE /\ self' = [self EXCEPT !.screen_share_active = FALSE,
                                    !.screen_share_lost_time = 0,
                                    !.awaiting_screen_reshare = TRUE]
            /\ sent' = <<"screen_share_lost", "ai_message_lost">>
            /\ obs' = [obs EXCEPT !.loss_n = @ + 1]
            /\ tasks' = Call(tasks, t, "speak", "lost_spoken")
    /\ UNCHANGED <<lock, running, ntimers, nmsgs, status, components>>

\* the guard, the three assignments, the two events and the notice
handle_screen_share_lost(t) ==
    /\ Exec(t, "lost")
    /\ IF ~self.is_active \/ self.awaiting_screen_reshare
       THEN /\ tasks' = Return(tasks, t)
            /\ sent' = <<>>
            /\ UNCHANGED <<self, obs>>
       ELSE /\ self' = [self EXCEPT !.screen_share_active = FALSE,
                                    !.screen_share_lost_time = 0,
                                    !.awaiting_screen_reshare = TRUE]
            /\ sent' = <<"screen_share_lost", "ai_message_lost">>
            /\ obs' = [obs EXCEPT !.loss_n = @ + 1]
            /\ tasks' = Call(tasks, t, "speak", "lost_spoken")
    /\ UNCHANGED <<lock, running, ntimers, nmsgs, status, components>>

\* asyncio.create_task(self._screen_share_timeout_checker())
handle_screen_share_lost_spoken(t) ==
    /\ Exec(t, "lost_spoken")
    /\ ntimers < MaxTimers
    /\ ntimers' = ntimers + 1
    /\ tasks' = [Return(tasks, t) EXCEPT
                    ![ntimers + 1].stack = <<"tc_start">>,
                    ![ntimers + 1].loss = obs.loss_n]
    /\ sent' = <<>>
    /\ UNCHANGED <<self, lock, running, nmsgs, status, obs, components>>

\* ---- InterviewSession._screen_share_timeout_checker ---------------------
\* first run of the task: await asyncio.sleep(screen_reconnect_timeout)
timeout_checker_sleep(t) ==
    /\ Susp(t, "tc_start")
    /\ tasks' = [Goto(tasks, t, "tc_sleep") EXCEPT
                    ![t].sleep = screen_reconnect_timeout]
    /\ sent' = <<>>
    /\ UNCHANGED <<self, lock, running, ntimers,
                   nmsgs, status, obs, components>>

\* the checker without its test: the closing notice after every sleep
timeout_checker_fire_untested(t) ==
    /\ Susp(t, "tc_sleep")
    /\ tasks[t].sleep = 0
    /\ sent' = <<"ai_message_closing">>
    /\ tasks' = [Call(tasks, t, "speak", "tc_spoken") EXCEPT ![t].fired = TRUE]
    /\ running' = t
    /\ UNCHANGED <<self, lock, ntimers, nmsgs, status, obs, components>>

\* the sleep is over: the test of awaiting_screen_reshare and is_active,
\* then the closing notice
timeout_checker_fire(t) ==
    /\ Susp(t, "tc_sleep")
    /\ tasks[t].sleep = 0
    /\ IF self.awaiting_screen_reshare /\ self.is_active
       THEN /\ sent' = <<"ai_message_closing">>
            /\ tasks' = [Call(tasks, t, "speak", "tc_spoken") EXCEPT
                            ![t].fired = TRUE]
            /\ running' = t
       ELSE /\ tasks' = [tasks EXCEPT ![t].stack = <<>>]
            /\ sent' = <<>>
            /\ UNCHANGED running
    /\ UNCHANGED <<self, lock, ntimers, nmsgs, status, obs, components>>

\* the checker calling stop() with the default auto_ended=False
timeout_checker_stop_default(t) ==
    /\ Exec(t, "tc_spoken")
    /\ tasks' = [Call(tasks, t, "stop", "tc_done") EXCEPT ![t].auto_ended = FALSE]
    /\ sent' = <<>>
    /\ UNCHANGED <<self, lock, running, ntimers,
                   nmsgs, status, obs, components>>

\* await self.stop(auto_ended=True)
timeout_checker_stop(t) ==
    /\ Exec(t, "tc_spoken")
    /\ tasks' = [Call(tasks, t, "stop", "tc_done") EXCEPT ![t].auto_ended = TRUE]
    /\ sent' = <<>>
    /\ UNCHANGED <<self, lock, running, ntimers,
                   nmsgs, status, obs, components>>

timeout_checker_done(t) ==
    /\ Exec(t, "tc_done")
    /\ tasks' = [tasks EXCEPT ![t].stack = <<>>]
    /\ running' = NoTask
    /\ sent' = <<>>
    /\ UNCHANGED <<self, lock, ntimers, nmsgs, status, obs, components>>

\* ---- InterviewSession.handle_screen_share_restored ----------------------
\* the checkers of a loss that have not reached their deadline
EarlyFor(loss) ==
    {i \in Timers : /\ tasks[i].loss = loss
                    /\ \/ At(i, "tc_start")
                       \/ At(i, "tc_sleep") /\ tasks[i].sleep > 0}

\* handle_screen_share_restored without its guard: every signal restores
handle_screen_share_restored_unguarded(t) ==
    /\ Exec(t, "restored")
    /\ self' = [self EXCEPT !.screen_share_active = TRUE,
                            !.awaiting_screen_reshare = FALSE,
                            !.screen_share_lost_time = None]
    /\ sent' = <<"screen_share_restored", "ai_message_restored">>
    /\ obs' = [obs EXCEPT !.restored = @ \cup {obs.loss_n},
                          !.restored_early = @ \cup EarlyFor(obs.loss_n)]
    /\ tasks' = Goto(tasks, t, "speak")
    /\ UNCHANGED <<lock, running, ntimers, nmsgs, status, components>>

handle_screen_share_restored(t) ==
    /\ Exec(t, "restored")
    /\ IF ~self.awaiting_screen_reshare
       THEN /\ tasks' = Return(tasks, t)
            /\ sent' = <<>>
            /\ UNCHANGED <<self, obs>>
       ELSE /\ self' = [self EXCEPT !.screen_share_active = TRUE,
                                    !.awaiting_screen_reshare = FALSE,
                                    !.screen_share_lost_time = None]
            /\ sent' = <<"screen_share_restored", "ai_message_restored">>
            /\ obs' = [obs EXCEPT !.restored = @ \cup {obs.loss_n},
                                  !.restored_early = @ \cup EarlyFor(obs.loss_n)]
            /\ tasks' = Goto(tasks, t, "speak")
    /\ UNCHANGED <<lock, running, ntimers, nmsgs, status, components>>

\* ---- InterviewSession.stop ----------------------------------------------
\* stop() without its guard: every call stops the session again
stop_unguarded(t) ==
    /\ Exec(t, "stop")
    /\ self' = [self EXCEPT !.is_active = FALSE,
                            !.is_stopped = TRUE,
                            !.awaiting_screen_reshare = FALSE]
    /\ obs' = [obs EXCEPT !.stop_by = t, !.stops = @ + 1,
                          !.stop_auto = tasks[t].auto_ended]
    /\ tasks' = Goto(tasks, t, "stop_flush")
    /\ sent' = <<>>
    /\ UNCHANGED <<lock, running, ntimers, nmsgs, status, components>>

\* the guard and the three flag assignments
stop(t) ==
    /\ Exec(t, "stop")
    /\ IF ~self.is_active \/ self.is_stopped
       THEN /\ tasks' = Return(tasks, t)
            /\ UNCHANGED <<self, obs>>
       ELSE /\ self' = [self EXCEPT !.is_active = FALSE,
                                    !.is_stopped = TRUE,
                                    !.awaiting_screen_reshare = FALSE]
            /\ obs' = [obs EXCEPT !.stop_by = t, !.stops = @ + 1,
                                  !.stop_auto = tasks[t].auto_ended]
            /\ tasks' = Goto(tasks, t, "stop_flush")
    /\ sent' = <<>>
    /\ UNCHANGED <<lock, running, ntimers, nmsgs, status, components>>

\* if self.audio_chunks: await self.process_accumulated_audio()
stop_flush(t) ==
    /\ Exec(t, "stop_flush")
    /\ tasks' = IF self.audio_chunks # <<>>
                THEN Call(tasks, t, "paa", "stop_fin")
                ELSE Goto(tasks, t, "stop_fin")
    /\ sent' = <<>>
    /\ UNCHANGED <<self, lock, running, ntimers,
                   nmsgs, status, obs, components>>

\* if self.accumulated_transcript.strip(): await self.finalize_transcript()
stop_finalize(t) ==
    /\ Exec(t, "stop_fin")
    /\ tasks' = IF self.accumulated_transcript.w > 0
                THEN Call(tasks, t, "fin", "stop_report")
                ELSE Goto(tasks, t, "stop_report")
    /\ sent' = <<>>
    /\ UNCHANGED <<self, lock, running, ntimers,
                   nmsgs, status, obs, components>>

\* the report whenever there is history, auto-ended or not
AutoReport_any(auto_ended, history) == history # <<>>

\* if auto_ended and self.history
AutoReport(auto_ended, history) == auto_ended /\ history # <<>>

\* the report automatically, or the interview_stopped prompt
stop_report(t) ==
    /\ Exec(t, "stop_report")
    /\ IF AutoReport(tasks[t].auto_ended, self.history)
       THEN /\ tasks' = Call(tasks, t, "rep", "stop_end")
            /\ obs' = [obs EXCEPT !.auto_reports = @ + 1,
                                  !.stop_turns = Len(self.history)]
            /\ sent' = <<>>
       ELSE /\ sent' = <<"interview_stopped">>
            /\ obs' = [obs EXCEPT !.stopped = @ + 1,
                                  !.stop_turns = Len(self.history)]
            /\ tasks' = Goto(tasks, t, "stop_end")
    /\ UNCHANGED <<self, lock, running, ntimers, nmsgs, status, components>>

\* the effective stop() returns
stop_end(t) ==
    /\ Exec(t, "stop_end")
    /\ obs' = [obs EXCEPT !.stop_returned = TRUE]
    /\ tasks' = Return(tasks, t)
    /\ sent' = <<>>
    /\ UNCHANGED <<self, lock, running, ntimers, nmsgs, status, components>>

\* ---- InterviewSession.generate_report_on_demand -------------------------
generate_report_on_demand(t) ==
    /\ Exec(t, "grod")
    /\ IF self.history = <<>>
       THEN /\ sent' = <<"interview_complete_no_content">>
            /\ tasks' = Return(tasks, t)
       ELSE /\ tasks' = Goto(tasks, t, "rep")
            /\ sent' = <<>>
    /\ UNCHANGED <<self, lock, running, ntimers,
                   nmsgs, status, obs, components>>

\* ---- InterviewSession._generate_and_send_report -------------------------
\* status thinking, "Generating your report...", then suspended in
\* brain.generate_summary
generate_and_send_report(t) ==
    /\ Exec(t, "rep")
    /\ status' = "thinking"
    /\ sent' = <<"ai_message_report">>
    /\ obs' = [obs EXCEPT !.summaries = @ + 1]
    /\ tasks' = Goto(tasks, t, "rep_summary")
    /\ running' = NoTask
    /\ UNCHANGED <<self, lock, ntimers, nmsgs, components>>

\* brain.generate_summary returned the summary or, when its own call
\* failed, its fallback summary; save_interview stores the record or raises.
\* After the save the PDF is rendered in the executor; an exception goes to
\* the except branch of the method.
generate_and_send_report_summary(t) ==
    /\ Susp(t, "rep_summary")
    /\ \E summary \in {"real", "degraded"}, saved \in BOOLEAN :
         IF saved
         THEN /\ tasks' = [Goto(tasks, t, "rep_pdf") EXCEPT ![t].summary = summary]
              /\ UNCHANGED running
         ELSE /\ tasks' = [Goto(tasks, t, "rep_failed") EXCEPT ![t].summary = summary]
              /\ running' = t
    /\ sent' = <<>>
    /\ UNCHANGED <<self, lock, ntimers, nmsgs, status, obs, components>>

\* except Exception: interview_complete with the error summary
generate_and_send_report_failed(t) ==
    /\ Exec(t, "rep_failed")
    /\ sent' = <<"interview_complete_degraded">>
    /\ obs' = [obs EXCEPT !.completes = @ + 1]
    /\ tasks' = [Return(tasks, t) EXCEPT ![t].summary = "none"]
    /\ UNCHANGED <<self, lock, running, ntimers, nmsgs, status, components>>

\* the executor returned the path of the PDF, or rendering raised and
\* pdf_path stays None
generate_and_send_report_pdf(t) ==
    /\ Susp(t, "rep_pdf")
    /\ \E pdf_path \in BOOLEAN :
         tasks' = [Goto(tasks, t, "rep_send") EXCEPT ![t].pdf_path = pdf_path]
    /\ running' = t
    /\ sent' = <<>>
    /\ UNCHANGED <<self, lock, ntimers, nmsgs, status, obs, components>>

\* the interview_complete event that carries a summary
Complete(summary) ==
    IF summary = "real" THEN "interview_complete"
    ELSE "interview_complete_degraded"

\* the completion with report_ready sent whether or not a PDF exists
generate_and_send_report_send_always(t) ==
    /\ Exec(t, "rep_send")
    /\ sent' = <<"report_ready", Complete(tasks[t].summary)>>
    /\ obs' = [obs EXCEPT !.completes = @ + 1]
    /\ tasks' = [Return(tasks, t) EXCEPT ![t].summary = "none",
                                         ![t].pdf_path = FALSE]
    /\ UNCHANGED <<self, lock, running, ntimers, nmsgs, status, components>>

\* report_ready if pdf_path, then interview_complete with the summary
generate_and_send_report_send(t) ==
    /\ Exec(t, "rep_send")
    /\ sent' = (IF tasks[t].pdf_path THEN <<"report_ready">> ELSE <<>>)
                  \o <<Complete(tasks[t].summary)>>
    /\ obs' = [obs EXCEPT !.completes = @ + 1]
    /\ tasks' = [Return(tasks, t) EXCEPT ![t].summary = "none",
                                         ![t].pdf_path = FALSE]
    /\ UNCHANGED <<self, lock, running, ntimers, nmsgs, status, components>>

\* ---- websocket_interview: the receive loop ------------------------------
HandlerOf(type) ==
    CASE type = "audio" -> "audio"
      [] type = "video" -> "ws_video"
      [] type = "screen_share_lost" -> "lost"
      [] type = "screen_share_restored" -> "restored"
      [] type = "generate_report" -> "grod"
      [] type = "stop" -> "stop"
      [] type = "user_speaking" -> "ws_user_speaking"

\* back at the head of the loop: suspended in websocket.receive()
ws_loop(t) ==
    /\ Exec(t, "ws_loop")
    /\ tasks' = Goto(tasks, t, "ws_recv")
    /\ running' = NoTask
    /\ sent' = <<>>
    /\ UNCHANGED <<self, lock, ntimers, nmsgs, status, obs, components>>

\* what the loop does with a received message:
\*   "break"    websocket.disconnect leaves the loop;
\*   "raise"    data.get("type") on a json.loads result that is not a dict
\*              raises AttributeError, which the inner except (JSONDecodeError
\*              only) lets through to the except Exception around the loop;
\*   "ignore"   json.loads raised JSONDecodeError, or no branch of the
\*              if/elif chain matches the type: back to the head of the loop;
\*   "dispatch" the branch of the type is taken.
Disposition(type) ==
    CASE type = "disconnect" -> "break"
      [] type = "non_object" -> "raise"
      [] type \in {"invalid_json", "unknown_type"} -> "ignore"
      [] OTHER -> "dispatch"

\* a message arrived; a break and an exception both end in the finally block
ws_receive(t) ==
    /\ Susp(t, "ws_recv")
    /\ nmsgs < MaxMsgs
    /\ nmsgs' = nmsgs + 1
    /\ running' = t
    /\ sent' = <<>>
    /\ \E message \in Messages :
         /\ message.type = "screen_share_lost" => ntimers < MaxTimers
         /\ tasks' =
              CASE Disposition(message.type) \in {"break", "raise"} ->
                     [Goto(tasks, t, "ws_finally") EXCEPT ![t].msg = message]
                [] Disposition(message.type) = "ignore" ->
                     [Goto(tasks, t, "ws_loop") EXCEPT ![t].msg = message]
                [] OTHER ->
                     [Call(tasks, t, HandlerOf(message.type), "ws_loop")
                         EXCEPT ![t].msg = message, ![t].auto_ended = FALSE]
         /\ obs' = IF message.type = "stop"
                      \/ Disposition(message.type) \in {"break", "raise"}
                   THEN [obs EXCEPT !.explicit_stop = TRUE] ELSE obs
    /\ UNCHANGED <<self, lock, ntimers, status, components>>

\* the video branch without the implicit restore
ws_video_blind(t) ==
    /\ Exec(t, "ws_video")
    /\ tasks' = Goto(tasks, t, "ws_video_frame")
    /\ sent' = <<>>
    /\ UNCHANGED <<self, lock, running, ntimers,
                   nmsgs, status, obs, components>>

\* video: a frame while awaiting recovery is an implicit restore
ws_video(t) ==
    /\ Exec(t, "ws_video")
    /\ tasks' = IF self.awaiting_screen_reshare
                THEN Call(tasks, t, "restored", "ws_video_frame")
                ELSE Goto(tasks, t, "ws_video_frame")
    /\ sent' = <<>>
    /\ UNCHANGED <<self, lock, running, ntimers,
                   nmsgs, status, obs, components>>

ws_video_frame(t) ==
    /\ Exec(t, "ws_video_frame")
    /\ self' = [self EXCEPT !.screen_share_active = TRUE]
    /\ tasks' = Goto(tasks, t, "video")
    /\ sent' = <<>>
    /\ UNCHANGED <<lock, running, ntimers, nmsgs, status, obs, components>>

ws_user_speaking(t) ==
    /\ Exec(t, "ws_user_speaking")
    /\ IF self.is_ai_speaking
       THEN /\ sent' = <<"stop_audio">>
            /\ self' = [self EXCEPT !.is_ai_speaking = FALSE]
       ELSE /\ sent' = <<>>
            /\ UNCHANGED self
    /\ tasks' = Return(tasks, t)
    /\ UNCHANGED <<lock, running, ntimers, nmsgs, status, obs, components>>

\* finally: await session.stop()
ws_finally(t) ==
    /\ Exec(t, "ws_finally")
    /\ tasks' = [Call(tasks, t, "stop", "ws_done") EXCEPT ![t].auto_ended = FALSE]
    /\ sent' = <<>>
    /\ UNCHANGED <<self, lock, running, ntimers,
                   nmsgs, status, obs, components>>

ws_done(t) ==
    /\ Exec(t, "ws_done")
    /\ tasks' = [tasks EXCEPT ![t].stack = <<>>]
    /\ running' = NoTask
    /\ sent' = <<>>
    /\ UNCHANGED <<self, lock, ntimers, nmsgs, status, obs, components>>

\* ---- the clock -----------------------------------------------------------
\* a second passes while every task is suspended
Tick ==
    /\ running = NoTask
    /\ NoneReady
    /\ self' = [self EXCEPT
          !.last_question_time = Older(@, QuestionCap),
          !.last_transcript_time = Older(@, FlushCap),
          !.screen_share_lost_time = Older(@, 0)]
    /\ tasks' = [t \in Tasks |->
                   [tasks[t] EXCEPT !.sleep = IF @ > 0 THEN @ - 1 ELSE 0]]
    /\ obs' = [obs EXCEPT !.eval_now = FALSE]
    /\ UNCHANGED <<lock, running, ntimers, nmsgs, sent, status, components>>

Step(t) ==
    \/ speak_response(t) \/ speak_response_done(t)
    \/ handle_audio_chunk(t)
    \/ process_accumulated_audio(t) \/ process_accumulated_audio_done(t)
    \/ finalize_transcript(t)
    \/ generate_response(t) \/ generate_response_acquired(t)
    \/ generate_response_locked(t) \/ generate_response_evaluated(t)
    \/ generate_response_failed(t)
    \/ generate_response_spoken(t)
    \/ stop(t) \/ stop_flush(t) \/ stop_finalize(t) \/ stop_report(t) \/ stop_end(t)
    \/ generate_and_send_report(t) \/ generate_and_send_report_summary(t)
    \/ generate_and_send_report_failed(t)
    \/ generate_and_send_report_pdf(t) \/ generate_and_send_report_send(t)

MainStep ==
    \/ start(Main) \/ start_opening(Main) \/ start_spoken(Main)
    \/ ws_loop(Main) \/ ws_receive(Main)
    \/ ws_video(Main) \/ ws_video_frame(Main) \/ ws_user_speaking(Main)
    \/ handle_video_frame(Main) \/ handle_video_frame_done(Main)
    \/ handle_screen_share_lost(Main) \/ handle_screen_share_lost_spoken(Main)
    \/ handle_screen_share_restored(Main)
    \/ generate_report_on_demand(Main)
    \/ ws_finally(Main) \/ ws_done(Main)

TimerStep(t) ==
    \/ timeout_checker_sleep(t) \/ timeout_checker_fire(t)
    \/ timeout_checker_stop(t) \/ timeout_checker_done(t)

Next ==
    \/ MainStep
    \/ \E t \in Tasks : Step(t)
    \/ \E t \in Timers : TimerStep(t)
    \/ Tick

Spec == Init /\ [][Next]_vars

\* ---- the session of a client that only sends audio and loses its share --
\* These are the messages that make tasks contend for the response lock:
\* the receive loop evaluating a transcript, and the timeout task whose
\* stop() flushes the transcript accumulated so far.
Contending == {"audio", "screen_share_lost"}

ws_receive_contending(t) ==
    /\ ws_receive(t)
    /\ tasks'[t].msg.type \in Contending

ContendingNext ==
    \/ start(Main) \/ start_opening(Main) \/ start_spoken(Main)
    \/ ws_loop(Main) \/ ws_receive_contending(Main)
    \/ handle_screen_share_lost(Main) \/ handle_screen_share_lost_spoken(Main)
    \/ \E t \in Tasks : Step(t)
    \/ \E t \in Timers : TimerStep(t)
    \/ Tick

\* The scheduling of the event loop: a task that can run is run, and every
\* collaborator call and every sleep returns.  Only the arrival of a message
\* is not promised.
Fairness ==
    /\ \A t \in Tasks : WF_vars(Step(t))
    /\ \A t \in Timers : WF_vars(TimerStep(t))
    /\ WF_vars(MainStep /\ ~At(Main, "ws_recv"))
    /\ WF_vars(Tick)

FairSpec == Init /\ [][ContendingNext]_vars /\ Fairness

\* ---- VisionProcessor (modules/vision_processor.py) ----------------------
\* A frame is a uniformly gray image, given by its brightness in percent of
\* 255, so that the normalized mean pixel difference of two frames is the
\* difference of their brightness.  _last_api_call is kept as the seconds
\* elapsed since the time it holds, Never for its initial 0.
Frames == {0, 10, 11}
Analyses == {"text_a", "text_b"}
Unavailable == "Screen content analysis temporarily unavailable"
VisionCap == min_interval + 1

\* np.mean(np.abs(current - last)) / 255, in percent
DiffRatio(current, last) ==
    IF current > last THEN current - last ELSE last - current

\* _detect_change with >= in place of >
detect_change_inclusive(last_frame, current) ==
    IF last_frame = None THEN TRUE
    ELSE DiffRatio(current, last_frame) >= change_threshold

\* _detect_change
detect_change(last_frame, current) ==
    IF last_frame = None THEN TRUE
    ELSE DiffRatio(current, last_frame) > change_threshold

\* now - self._last_api_call < self.min_interval
CoolingDown(last_api_call) ==
    TimeSince(last_api_call, VisionCap) < min_interval

\* process_frame up to its await: the change test, now = time.time(), the
\* interval test; it returns (False, None) or suspends in _analyze_frame
process_frame ==
    /\ vision.pc = "idle"
    /\ vision.frames < MaxFrames
    /\ \E frame \in Frames :
         IF detect_change(vision.last_frame, frame)
               /\ ~CoolingDown(vision.last_api_call)
         THEN vision' = [vision EXCEPT !.pc = "analyzing", !.frame = frame,
                                       !.now = 0, !.frames = @ + 1]
         ELSE vision' = [vision EXCEPT
                 !.frame = frame, !.frames = @ + 1,
                 !.returned = [should_analyze |-> FALSE, analysis |-> "None"]]
    /\ UNCHANGED <<session, storage, deepgram>>

\* what _analyze_frame returns: the text of the model, the cached analysis
\* when the call was rate limited, the fixed text on any other failure
AnalysisOf(outcome, text, last_analysis) ==
    CASE outcome = "ok" -> text
      [] outcome = "rate_limited" -> last_analysis
      [] OTHER -> Unavailable

\* _analyze_frame returned; process_frame stores the frame, the analysis
\* and now, and returns (True, analysis)
process_frame_analyzed ==
    /\ vision.pc = "analyzing"
    /\ \E outcome \in {"ok", "rate_limited", "failed"}, text \in Analyses :
         LET analysis == AnalysisOf(outcome, text, vision.last_analysis) IN
         vision' = [vision EXCEPT
             !.pc = "idle", !.outcome = outcome, !.now = 0,
             !.last_frame = vision.frame,
             !.last_analysis = analysis,
             !.last_api_call = vision.now,
             !.returned = [should_analyze |-> TRUE, analysis |-> analysis]]
    /\ UNCHANGED <<session, storage, deepgram>>

\* a second passes for the processor
VisionTick ==
    /\ vision' = [vision EXCEPT
          !.last_api_call = Older(@, VisionCap),
          !.now = IF vision.pc = "analyzing" THEN Older(@, VisionCap) ELSE @]
    /\ UNCHANGED <<session, storage, deepgram>>

VisionNext == process_frame \/ process_frame_analyzed \/ VisionTick

VisionSpec == Init /\ [][VisionNext]_vars

\* ---- the sessions of one process and interview_storage ------------------
\* InterviewSession.__init__: a connection creates a session, whose
\* session_id is the time of creation
InterviewSession_init ==
    /\ Len(storage.sessions) < MaxSessions
    /\ storage' = [storage EXCEPT
          !.sessions = Append(@, SessionId(storage.clock))]
    /\ UNCHANGED <<session, vision, deepgram>>

\* save_interview(session_id, record) of session i writes
\* <session_id>.json, replacing the file if it exists
save_interview(i) ==
    /\ i \in 1..Len(storage.sessions)
    /\ storage.files[storage.sessions[i]] # i
    /\ storage' = [storage EXCEPT !.files[storage.sessions[i]] = i]
    /\ UNCHANGED <<session, vision, deepgram>>

\* half a second passes
ClockTick ==
    /\ storage.clock < MaxClock
    /\ storage' = [storage EXCEPT !.clock = @ + 1]
    /\ UNCHANGED <<session, vision, deepgram>>

StorageNext ==
    \/ InterviewSession_init
    \/ \E i \in 1..MaxSessions : save_interview(i)
    \/ ClockTick

StorageSpec == Init /\ [][StorageNext]_vars

\* ---- DeepgramStreamClient ------------------------------------------------
\* Every action runs one task from one await to the next. pc is the await a
\* caller is suspended in ("idle": in no call of the client), loop the one
\* the receive task of a connection is suspended in. disconnected records
\* that disconnect() has returned and the application has not called
\* connect() since.

\* the receive tasks that have not ended
Live == {"receiving", "sleeping", "connecting"}

\* connect(), lines 77-85, when websockets.connect has returned
Established(d) ==
    [d EXCEPT !._ws = d.made + 1, !._is_connected = TRUE,
              !._receive_task = d.made + 1, !.made = d.made + 1,
              !.loop[d.made + 1] = "receiving"]

\* the application calls connect(): the guard, then websockets.connect
connect ==
    /\ deepgram.pc["control"] = "idle"
    /\ deepgram' =
         IF deepgram._is_connected
         THEN [deepgram EXCEPT !.disconnected = FALSE]
         ELSE [deepgram EXCEPT !.disconnected = FALSE,
                               !.pc["control"] = "connecting"]
    /\ UNCHANGED <<session, vision, storage>>

\* websockets.connect returns to a caller, in connect() or in the connect()
\* of _handle_disconnect, or raises
connect_done(c) ==
    /\ deepgram.pc[c] \in {"connecting", "hd_connecting"}
    /\ \E ok \in BOOLEAN :
         deepgram' =
           IF ok /\ deepgram.made < MaxConnections
           THEN [Established(deepgram) EXCEPT !.pc[c] = "idle"]
           ELSE [deepgram EXCEPT !.pc[c] = "idle"]
    /\ UNCHANGED <<session, vision, storage>>

\* lines 104-113 up to the first await: the CloseStream message, or the
\* return when there is no websocket
CloseStream(d) ==
    IF d._ws # NoConnection
    THEN [d EXCEPT !.pc["control"] = "disc_send"]
    ELSE [d EXCEPT !.pc["control"] = "idle", !.disconnected = TRUE]

\* disconnect(), lines 95-100: the flag, the cancellation of the receive
\* task and the await of it, which suspends while the task has not ended
disconnect ==
    /\ deepgram.pc["control"] = "idle"
    /\ LET r == deepgram._receive_task
           d == [deepgram EXCEPT !._is_connected = FALSE]
       IN  deepgram' =
             IF r # NoConnection /\ deepgram.loop[r] \in Live
             THEN [d EXCEPT !.loop[r] = "cancelled",
                            !.pc["control"] = "disc_task"]
             ELSE CloseStream(d)
    /\ UNCHANGED <<session, vision, storage>>

\* the cancelled receive task has ended
disconnect_task_awaited ==
    /\ deepgram.pc["control"] = "disc_task"
    /\ deepgram' = CloseStream(deepgram)
    /\ UNCHANGED <<session, vision, storage>>

\* self._ws.send returned or raised; then self._ws.close(), on whatever
\* self._ws is by now; with no websocket the bare except ends the block
disconnect_sent ==
    /\ deepgram.pc["control"] = "disc_send"
    /\ \E ok \in BOOLEAN :
         deepgram' =
           IF ok /\ deepgram._ws # NoConnection
           THEN [deepgram EXCEPT !.pc["control"] = "disc_close"]
           ELSE [deepgram EXCEPT !._ws = NoConnection,
                                 !.pc["control"] = "idle",
                                 !.disconnected = TRUE]
    /\ UNCHANGED <<session, vision, storage>>

\* self._ws.close() returned or raised: self._ws = None and the return
disconnect_closed ==
    /\ deepgram.pc["control"] = "disc_close"
    /\ deepgram' = [deepgram EXCEPT !._ws = NoConnection,
                                    !.pc["control"] = "idle",
                                    !.disconnected = TRUE]
    /\ UNCHANGED <<session, vision, storage>>

\* send_audio(): the guard, then self._ws.send
send_audio ==
    /\ deepgram.pc["audio"] = "idle"
    /\ deepgram._is_connected /\ deepgram._ws # NoConnection
    /\ deepgram' = [deepgram EXCEPT !.pc["audio"] = "sending"]
    /\ UNCHANGED <<session, vision, storage>>

\* the send returned, or it raised: _handle_disconnect clears the flag and
\* sleeps
send_audio_done ==
    /\ deepgram.pc["audio"] = "sending"
    /\ \E ok \in BOOLEAN :
         deepgram' =
           IF ok
           THEN [deepgram EXCEPT !.pc["audio"] = "idle"]
           ELSE [deepgram EXCEPT !._is_connected = FALSE,
                                 !.pc["audio"] = "hd_sleep"]
    /\ UNCHANGED <<session, vision, storage>>

\* _handle_disconnect in the task of send_audio, after its sleep: connect()
handle_disconnect ==
    /\ deepgram.pc["audio"] = "hd_sleep"
    /\ deepgram' =
         [deepgram EXCEPT !.pc["audio"] =
            IF deepgram._is_connected THEN "idle" ELSE "hd_connecting"]
    /\ UNCHANGED <<session, vision, storage>>

\* _receive_loop: the connection is closed with an error (ConnectionClosed:
\* _handle_disconnect clears the flag and sleeps) or the iteration ends
receive_loop(r) ==
    /\ deepgram.loop[r] = "receiving"
    /\ \E closed \in BOOLEAN :
         deepgram' =
           IF closed
           THEN [deepgram EXCEPT !._is_connected = FALSE,
                                 !.loop[r] = "sleeping"]
           ELSE [deepgram EXCEPT !.loop[r] = "done"]
    /\ UNCHANGED <<session, vision, storage>>

\* _handle_disconnect in the receive task, after its sleep: connect()
receive_loop_slept(r) ==
    /\ deepgram.loop[r] = "sleeping"
    /\ deepgram' =
         [deepgram EXCEPT !.loop[r] =
            IF deepgram._is_connected THEN "done" ELSE "connecting"]
    /\ UNCHANGED <<session, vision, storage>>

\* websockets.connect returns to the receive task, or raises; the task ends
receive_loop_connected(r) ==
    /\ deepgram.loop[r] = "connecting"
    /\ \E ok \in BOOLEAN :
         deepgram' =
           IF ok /\ deepgram.made < MaxConnections
           THEN [Established(deepgram) EXCEPT !.loop[r] = "done"]
           ELSE [deepgram EXCEPT !.loop[r] = "done"]
    /\ UNCHANGED <<session, vision, storage>>

DeepgramNext ==
    \/ connect
    \/ \E c \in Callers : connect_done(c)
    \/ disconnect
    \/ disconnect_task_awaited
    \/ disconnect_sent
    \/ disconnect_closed
    \/ send_audio
    \/ send_audio_done
    \/ handle_disconnect
    \/ \E r \in Connections :
         receive_loop(r) \/ receive_loop_slept(r) \/ receive_loop_connected(r)

DeepgramSpec == Init /\ [][DeepgramNext]_vars


TypeOK ==
    /\ running \in Tasks \cup {NoTask}
    /\ lock.owner \in Tasks \cup {NoTask}
    /\ self.last_question_time \in {Never} \cup 0..QuestionCap
    /\ self.last_transcript_time \in 0..FlushCap
    /\ \A t \in Tasks : tasks[t].sleep \in 0..screen_reconnect_timeout

\* ==== properties ==========================================================

\* a task is in an evaluation cycle from the call of brain.evaluate until the
\* lock is left: suspended in the evaluation, or speaking its answer
InCycle(t) == Inside(t, "gr_eval") \/ Inside(t, "gr_spoken")

\* C1: in every reachable state at most one task is in an evaluation cycle
\* (brain.evaluate together with the speech for its answer), whichever task
\* triggered it.
C1_OneEvaluationCycle == Cardinality({t \in Tasks : InCycle(t)}) <= 1

\* a cycle is in progress while another task waits for the lock
C1_Witness ==
    \E t, u \in Tasks : t # u /\ InCycle(t) /\ At(u, "gr_wait")

\* C2: once the effective stop() has returned, no step starts an evaluation
\* (no task becomes suspended in brain.evaluate) and history stays as it is.
C2_NoCycleAfterStop ==
    [][obs.stop_returned =>
         /\ self'.history = self.history
         /\ \A t \in Tasks :
              (tasks'[t].stack # <<>> /\ Head(tasks'[t].stack) = "gr_eval")
                 => At(t, "gr_eval")]_vars

\* C3: the timeout checker of a loss for which handle_screen_share_restored
\* has run is never the task whose stop() terminates the session.
C3_RestoredLossNotTerminated ==
    \A t \in Timers : obs.stop_by = t => tasks[t].loss \notin obs.restored

\* C4: a checker whose loss was restored before its deadline never emits the
\* closing notice and never terminates the session, so a timeout termination
\* comes from the checker of the most recent loss, after its full sleep.
C4_ResidualTimerSilent ==
    \A t \in obs.restored_early : ~tasks[t].fired /\ obs.stop_by # t

\* a checker has finished
Finished(t) == t <= ntimers /\ tasks[t].stack = <<>>

\* what C5 promises once the checker t of a loss has finished
TimeoutOutcome(t) ==
    /\ self.is_stopped /\ obs.stops = 1
    /\ obs.stop_auto
    /\ obs.stop_by \in Timers /\ tasks[obs.stop_by].fired
    /\ obs.stop_returned =>
          /\ obs.auto_reports = (IF obs.stop_turns > 0 THEN 1 ELSE 0)
          /\ obs.stopped = 1 - obs.auto_reports

\* C5 as stated: when the checker of a loss that was not restored has
\* finished, the session was terminated exactly once, with auto_ended=true
\* and after the closing notice, and with a non-empty history the automatic
\* report was produced exactly once.
C5_TimeoutTerminates ==
    \A t \in Timers :
        (Finished(t) /\ tasks[t].loss \notin obs.restored) => TimeoutOutcome(t)

\* C5 amended: the same, provided no stop message was received and the
\* receive loop was not left (obs.explicit_stop).
C5_TimeoutTerminatesUnlessStopped ==
    \A t \in Timers :
        (Finished(t) /\ tasks[t].loss \notin obs.restored /\ ~obs.explicit_stop)
            => TimeoutOutcome(t)

\* a checker fired, terminated the session and its stop() sent the report
C5_Witness ==
    \E t \in Timers :
        /\ Finished(t) /\ tasks[t].fired /\ obs.stop_by = t
        /\ obs.stop_returned /\ obs.stop_turns > 0 /\ obs.auto_reports = 1
        /\ ~obs.explicit_stop

\* C6: a call of stop() once the session is stopped returns at once: it
\* sends nothing, suspends in no collaborator and changes no session field;
\* and stop() sends at most one interview_stopped or one automatic report.
C6_StopIdempotent ==
    /\ [][\A t \in Tasks :
            (Exec(t, "stop") /\ self.is_stopped) =>
                /\ self' = self /\ lock' = lock /\ status' = status
                /\ obs' = obs /\ sent' = <<>>
                /\ running' = t /\ tasks' = Return(tasks, t)]_vars
    /\ [](obs.stopped + obs.auto_reports <= 1 /\ obs.stops <= 1)

\* the receive loop's finally block has called stop() after a checker's
\* stop() had terminated the session
C6_Witness == At(Main, "ws_done") /\ obs.stop_by \in Timers

PendingChecker == \E t \in Timers : At(t, "tc_start") \/ At(t, "tc_sleep")

\* C7: a recovery deadline exists (screen_share_lost_time is set; a checker
\* is pending) only while awaiting recovery, and while awaiting recovery
\* screen_share_lost_time is set.
C7_DeadlineIffAwaiting ==
    /\ (self.screen_share_lost_time # None) <=> self.awaiting_screen_reshare
    /\ PendingChecker => self.awaiting_screen_reshare

\* C8: the k-th Turn of history carries slide k, and history only changes by
\* an append at its end.
C8_HistoryNumbered ==
    /\ [](\A k \in 1..Len(self.history) : self.history[k].slide = k)
    /\ [][\/ self'.history = self.history
          \/ /\ Len(self'.history) = Len(self.history) + 1
             /\ SubSeq(self'.history, 1, Len(self.history)) = self.history]_vars

C8_Witness == Len(self.history) >= 2

\* C9: a finalized transcript that asks the AI a direct question is never
\* dropped by pacing: generate_response goes on to brain.evaluate for it.
C9_DirectQuestionBypassesPacing ==
    [][\A t \in Tasks :
         (Exec(t, "gr_locked") /\ tasks[t].transcript.q)
            => Head(tasks'[t].stack) = "gr_eval"]_vars

\* C10: inside the lock generate_response goes on to brain.evaluate exactly
\* when no ask was recorded yet or at least min_question_interval seconds
\* have passed since the last recorded ask.
C10_PacingExact ==
    [][\A t \in Tasks :
         Exec(t, "gr_locked") =>
            ((tasks'[t].stack # <<>> /\ Head(tasks'[t].stack) = "gr_eval")
             <=> \/ self.last_question_time = Never
                 \/ self.last_question_time >= min_question_interval)]_vars

\* an evaluation was started exactly min_question_interval after the ask
C10_Witness ==
    \E t \in Tasks :
        At(t, "gr_eval") /\ self.last_question_time = min_question_interval

\* the step in which task t takes the pacing test inside the lock goes on to
\* brain.evaluate
Admits(t) == tasks'[t].stack # <<>> /\ Head(tasks'[t].stack) = "gr_eval"

\* C11 as stated: a transcript that reaches the pacing test in the second in
\* which the evaluation of the transcript before it began is dropped,
\* whatever that evaluation returned.
C11_SecondDropped ==
    [][\A t \in Tasks :
         (Exec(t, "gr_locked") /\ obs.eval_now) => ~Admits(t)]_vars

\* C11 amended: it is dropped when the response text of that evaluation was
\* non-empty and was spoken.
C11_SecondDroppedAfterSpeech ==
    [][\A t \in Tasks :
         (Exec(t, "gr_locked") /\ obs.eval_now /\ obs.eval_spoken)
            => ~Admits(t)]_vars

\* the receive loop is back at its head after a second transcript, different
\* from the one in history, was finalized in the second in which the first
\* one's evaluation began; the last evaluation is still the spoken first one
C11_Witness ==
    /\ Exec(Main, "ws_loop") /\ ntimers = 0
    /\ obs.eval_now /\ obs.eval_spoken
    /\ Len(self.history) = 1
    /\ tasks[Main].transcript # self.history[1].transcript
    /\ self.accumulated_transcript = NoTranscript

\* task t obtains a result from brain.evaluate in this step
Evaluated(t) == Susp(t, "gr_eval") /\ running' = t /\ sent' # <<"error">>

C13_OneTranscription ==
    /\ Cardinality({t \in Tasks : Inside(t, "paa_transcribed")}) <= 1
    /\ (\E t \in Tasks : Inside(t, "paa_transcribed")) => self.audio_chunks = <<>>

\* the timeout task has run stop() while the receive loop's transcription
\* call was in flight
C13_Witness ==
    /\ At(Main, "paa_transcribed")
    /\ obs.stop_by \in Timers /\ obs.stop_returned

\* C14: handle_audio_chunk starts a flush only when at least FlushInterval
\* seconds have passed since the last drain of the buffer; a chunk that
\* arrives earlier in an active session is appended and nothing else happens.
C14_FlushInterval ==
    [][\A t \in Tasks :
         Exec(t, "audio") =>
            /\ (Head(tasks'[t].stack) = "paa")
                  => self.last_transcript_time >= FlushInterval
            /\ (self.is_active /\ self.last_transcript_time < FlushInterval)
                  => /\ self' = [self EXCEPT !.audio_chunks =
                                      Append(@, tasks[t].msg.data)]
                     /\ tasks' = Return(tasks, t)
                     /\ sent' = <<>>]_vars

\* a chunk that arrived one or two seconds after a drain lies in the buffer
C14_Witness ==
    /\ Exec(Main, "ws_loop") /\ tasks[Main].msg.type = "audio"
    /\ self.is_active /\ Len(self.history) >= 1
    /\ self.last_transcript_time \in 1..(FlushInterval - 1)
    /\ Len(self.audio_chunks) = 1

\* C15: process_accumulated_audio is never called on an empty buffer, and it
\* calls the transcription exactly when the combined audio has at least
\* MinAudioBytes bytes; a smaller drain empties the buffer, stamps the flush
\* time, sends nothing and leaves the accumulated transcript as it is.
C15_SmallDrainDiscarded ==
    /\ [](\A t \in Tasks : At(t, "paa") => self.audio_chunks # <<>>)
    /\ [][\A t \in Tasks :
            Exec(t, "paa") =>
               /\ (Head(tasks'[t].stack) = "paa_transcribed")
                     <=> SumSeq(self.audio_chunks) >= MinAudioBytes
               /\ SumSeq(self.audio_chunks) < MinAudioBytes
                     => /\ self' = [self EXCEPT !.audio_chunks = <<>>,
                                                !.last_transcript_time = 0]
                        /\ tasks' = Return(tasks, t)
                        /\ sent' = <<>>]_vars

\* the only chunk received, of half the minimum size, was drained and dropped
C15_Witness ==
    /\ Exec(Main, "ws_loop") /\ nmsgs = 1
    /\ tasks[Main].msg.type = "audio" /\ tasks[Main].msg.data < MinAudioBytes
    /\ self.audio_chunks = <<>> /\ self.last_transcript_time = 0

\* C16: after a transcription result is appended, finalize_transcript is
\* entered exactly when the accumulator holds at least FinalizeWords words;
\* finalize_transcript takes the text and empties the accumulator in one step;
\* and the accumulator holds that many words only in the state in which
\* finalize_transcript is about to run.
C16_FinalizeAtThreshold ==
    /\ [][\A t \in Tasks :
            (Susp(t, "paa_transcribed") /\ running' = t) =>
               ((Head(tasks'[t].stack) = "fin")
                   <=> self'.accumulated_transcript.w >= FinalizeWords)]_vars
    /\ [][\A t \in Tasks :
            (Exec(t, "fin") /\ self.accumulated_transcript.w > 0) =>
               /\ self'.accumulated_transcript = NoTranscript
               /\ tasks'[t].transcript = self.accumulated_transcript
               /\ sent' = <<"transcript_final">>]_vars
    /\ [](self.accumulated_transcript.w >= FinalizeWords
             => \E t \in Tasks : Exec(t, "fin"))

\* a transcript built from two fragments was finalized at the threshold
C16_Witness ==
    \E t \in Tasks :
        /\ Exec(t, "gr") /\ ~Inside(t, "stop_report")
        /\ sent = <<"transcript_final">>
        /\ tasks[t].transcript.w > FinalizeWords
        /\ self.accumulated_transcript = NoTranscript

\* C17: once the effective stop() has returned, the audio buffer and the
\* transcript accumulator are empty.
C17_StopLeavesNothingPending ==
    obs.stop_returned =>
        /\ self.audio_chunks = <<>>
        /\ self.accumulated_transcript = NoTranscript

\* the effective stop() has chosen between the report and the prompt
Decided == obs.stopped + obs.auto_reports > 0

\* the receive loop was left
LoopLeft ==
    \/ tasks[Main].stack = <<>>
    \/ Inside(Main, "ws_finally") \/ Inside(Main, "ws_done")

C19_ReportOnceAfterStop ==
    /\ obs.summaries <= 1
    /\ obs.summaries > 0 => self.is_stopped

\* the positions of the receive loop's handling of an audio or video message
FrameHandling == {"audio", "ws_video", "ws_video_frame", "video"}

\* C20: in a stopped session is_stopped stays true and is_active and
\* awaiting_screen_reshare are false, and the handling of an audio or video
\* message sends nothing, suspends in no collaborator and leaves the audio
\* buffer, the accumulator, the visual context and history as they are.
C20_TerminatedAbsorbing ==
    /\ [](self.is_stopped =>
             ~self.is_active /\ ~self.awaiting_screen_reshare)
    /\ [][self.is_stopped => self'.is_stopped]_vars
    /\ [][\A l \in FrameHandling :
            (Exec(Main, l) /\ self.is_stopped) =>
               /\ sent' = <<>> /\ running' = Main
               /\ self'.audio_chunks = self.audio_chunks
               /\ self'.accumulated_transcript = self.accumulated_transcript
               /\ self'.screen_context = self.screen_context
               /\ self'.screen_contexts = self.screen_contexts
               /\ self'.history = self.history
               /\ Head(tasks'[Main].stack) \in FrameHandling \cup {"ws_loop"}]_vars

\* an audio or video message was handled after a stop message had stopped
\* the session
C20_Witness ==
    /\ Exec(Main, "ws_loop") /\ tasks[Main].msg.type \in {"audio", "video"}
    /\ obs.stop_by = Main /\ obs.stop_returned

\* C21: the receive loop is left only on a disconnect; no malformed text
\* payload (invalid JSON, JSON that is not an object, a missing or unknown
\* type) ends it or stops the session.
C21_MalformedIgnored == LoopLeft => tasks[Main].msg.type = "disconnect"

\* C23: the handling of an audio or video message does not wait for an
\* evaluation cycle: while a cycle is in progress the receive loop is not
\* the task that runs it, so it takes the messages that arrive and handles
\* them before the cycle completes.
C23_HandlingDoesNotWait == \A t \in Tasks : InCycle(t) => t # Main

\* a transition signal the session state does not allow is being handled
InvalidSignal(t) ==
    \/ Exec(t, "restored") /\ ~self.awaiting_screen_reshare
    \/ Exec(t, "lost") /\ (~self.is_active \/ self.awaiting_screen_reshare)

\* C24: screen_share_restored when the session is not awaiting recovery, and
\* screen_share_lost when it is awaiting recovery or is not active, return at
\* once: no event is sent, nothing is spoken, no timer is started and no
\* session field changes.
C24_InvalidSignalsNoOps ==
    [][\A t \in Tasks :
          InvalidSignal(t) =>
             /\ self' = self /\ sent' = <<>> /\ status' = status
             /\ ntimers' = ntimers /\ lock' = lock /\ running' = t
             /\ tasks' = Return(tasks, t)]_vars

\* a screen_share_restored message was handled in an active session that
\* never lost its share
C24_Witness ==
    /\ Exec(Main, "ws_loop") /\ tasks[Main].msg.type = "screen_share_restored"
    /\ obs.loss_n = 0 /\ self.is_active

\* the events of a restoration
RestoredEvents == <<"screen_share_restored", "ai_message_restored">>

\* C25: the video branch calls handle_screen_share_restored when the session
\* is awaiting recovery; the call, like the one for an explicit
\* screen_share_restored message, sets awaiting_screen_reshare false and
\* screen_share_active true, clears screen_share_lost_time and sends
\* screen_share_restored and the welcome-back notice; no other step of the
\* handling of the video message sends either of them.
C25_VideoRestores ==
    /\ [][(Exec(Main, "ws_video") /\ self.awaiting_screen_reshare) =>
             tasks' = Call(tasks, Main, "restored", "ws_video_frame")]_vars
    /\ [](Exec(Main, "restored") /\ tasks[Main].msg.type = "video"
             => self.awaiting_screen_reshare)
    /\ [][(Exec(Main, "restored") /\ self.awaiting_screen_reshare) =>
             /\ ~self'.awaiting_screen_reshare
             /\ self'.screen_share_active
             /\ self'.screen_share_lost_time = None
             /\ sent' = RestoredEvents]_vars
    /\ [][(running = Main /\ tasks[Main].msg.type = "video"
                /\ ~At(Main, "restored")) =>
             \A i \in 1..Len(sent') : sent'[i] \notin
                 {"screen_share_restored", "ai_message_restored"}]_vars

\* the welcome-back notice is being spoken inside the video branch
C25_Witness ==
    /\ At(Main, "speak_tts") /\ tasks[Main].msg.type = "video"
    /\ tasks[Main].stack[2] = "ws_video_frame"
    /\ ~self.awaiting_screen_reshare /\ self.screen_share_active
    /\ self.screen_share_lost_time = None

\* a report generation attempt of task t is in progress
Attempting(t) ==
    \/ Inside(t, "rep_summary") \/ Inside(t, "rep_failed")
    \/ Inside(t, "rep_pdf") \/ Inside(t, "rep_send")

CompleteEvents == {"interview_complete", "interview_complete_degraded"}
ReportEvents == CompleteEvents \cup {"report_ready"}

\* C28: every attempt that was started has ended with one interview_complete
\* or is in progress, and it returns to its caller; the except branch sends
\* the degraded summary; after the PDF step report_ready is sent exactly
\* when a PDF was rendered, followed by interview_complete with the summary
\* that was generated; no other step sends report_ready or an
\* interview_complete with a summary.
C28_ReportAlwaysCompletes ==
    /\ [](obs.summaries =
             obs.completes + Cardinality({t \in Tasks : Attempting(t)}))
    /\ [][\A t \in Tasks : Exec(t, "rep_failed") =>
             /\ sent' = <<"interview_complete_degraded">>
             /\ tasks'[t].stack = Tail(tasks[t].stack)]_vars
    /\ [][\A t \in Tasks : Exec(t, "rep_send") =>
             /\ sent' = IF tasks[t].pdf_path
                        THEN <<"report_ready", Complete(tasks[t].summary)>>
                        ELSE <<Complete(tasks[t].summary)>>
             /\ tasks'[t].stack = Tail(tasks[t].stack)]_vars
    /\ [][(\E i \in 1..Len(sent') : sent'[i] \in ReportEvents) =>
             /\ \E t \in Tasks : Exec(t, "rep_failed") \/ Exec(t, "rep_send")
             /\ obs'.completes = obs.completes + 1]_vars

\* PDF rendering failed after a real summary was generated and saved: the
\* summary was sent without report_ready
C28_Witness ==
    /\ sent = <<"interview_complete">> /\ obs.completes = 1
    /\ ~self.is_stopped

\* start() is on the call stack of the receive loop's task
InStart == Inside(Main, "start") \/ Inside(Main, "start_opening")
              \/ Inside(Main, "start_spoken")

AiMessages == {"ai_message_opening", "ai_message_lost", "ai_message_restored",
               "ai_message_closing", "ai_message_report"}

\* C30: start() runs once, before the first message; from its first await
\* on the session is active with the share present; it sends the opening as
\* its only ai_message, in the step in which brain.generate_opening returns,
\* and that step goes on to speak it; last_question_time stays unset until
\* the speech has returned, with or without audio, and is recorded then.
C30_StartOpensOnce ==
    /\ [](InStart => nmsgs = 0 /\ ntimers = 0)
    /\ []((InStart /\ ~At(Main, "start")) =>
             /\ self.is_active /\ self.screen_share_active
             /\ self.last_question_time = Never)
    /\ [][InStart' => InStart]_vars
    /\ [][At(Main, "start_opening")' =>
             (At(Main, "start_opening") \/ Exec(Main, "start"))]_vars
    /\ [][IF Susp(Main, "start_opening") /\ running' = Main
          THEN /\ sent' = <<"ai_message_opening">>
               /\ tasks' = Call(tasks, Main, "speak", "start_spoken")
          ELSE \A i \in 1..Len(sent') :
                  /\ sent'[i] # "ai_message_opening"
                  /\ InStart => sent'[i] \notin AiMessages]_vars
    /\ [][Exec(Main, "start_spoken") =>
             /\ self'.last_question_time = 0
             /\ ~InStart']_vars

\* start() has returned after speech synthesis gave no audio: the receive
\* loop is about to wait for the first message
C30_Witness ==
    /\ Exec(Main, "ws_loop") /\ nmsgs = 0
    /\ self.is_active /\ self.screen_share_active
    /\ self.last_question_time = 0 /\ status = "listening"

\* C22: when the vision call failed, process_frame leaves the stored frame
\* and the time of the last call as they were, and after a rate limit it
\* returns the cached description.
C22_FailureNotRecorded ==
    [][(vision.pc = "analyzing" /\ vision'.pc = "idle"
            /\ vision'.outcome # "ok") =>
          /\ vision'.last_frame = vision.last_frame
          /\ vision'.last_api_call = vision.last_api_call
          /\ vision'.outcome = "rate_limited" =>
                vision'.returned.analysis = vision.last_analysis]_vars

C27_SessionIdsDistinct ==
    \A i, j \in 1..Len(storage.sessions) :
        /\ i # j => storage.sessions[i] # storage.sessions[j]
        /\ storage.files[storage.sessions[i]] \in {0, i}

\* task t has requested the response lock and has not entered the region
Requesting(t) == At(t, "gr_wait")
\* task t is inside the region the response lock guards
Holding(t) == lock.owner = t /\ ~At(t, "gr_wait")

RecordsAsk ==
    \/ Exec(Main, "start_spoken")
    \/ \E t \in Tasks : Exec(t, "gr_spoken")

\* C31: last_question_time is set in the step after the speech of the
\* opening and in the step after the speech of a non-empty response; no
\* other step sets it (it only grows older as time passes): not a permitted
\* evaluation without response text, not a pacing-blocked call, not the
\* lost, welcome-back and closing notices.
C31_AskRecordedAfterSpeech ==
    /\ [][IF RecordsAsk
          THEN self'.last_question_time = 0
          ELSE self'.last_question_time \in
                 {self.last_question_time,
                  Older(self.last_question_time, QuestionCap)}]_vars
    /\ [](\A t \in Tasks : Inside(t, "gr_spoken") => obs.eval_spoken)

\* the lost notice was spoken some seconds after the opening and the time of
\* the last ask is still that of the opening
C31_Witness ==
    /\ Exec(Main, "lost_spoken") /\ self.last_question_time > 0
    /\ self.history = <<>>

\* task t leaves the region of the response lock in this step
Leaves(t) == lock.owner = t /\ lock'.owner # t

\* C37: generate_response sends status thinking when the pacing test lets it
\* pass, and nothing when it does not; when it then leaves the lock the last
\* status sent is listening: sent in the leaving step itself on the proceed
\* path, the path without response text and the exception path, and sent by
\* speak_response, after which the task runs on to the release, on the
\* spoken path.
C37_ThinkingThenListening ==
    /\ [][\A t \in Tasks : Exec(t, "gr_locked") =>
             IF Leaves(t) THEN status' = status
             ELSE status' = "thinking" /\ tasks' = Goto(tasks, t, "gr_eval")]_vars
    /\ [][\A t \in Tasks : (Leaves(t) /\ Susp(t, "gr_eval")) =>
             status' = "listening"]_vars
    /\ [][\A t \in Tasks : (Susp(t, "speak_tts") /\ running' = t) =>
             status' = "listening"]_vars
    /\ [](\A t \in Tasks : Exec(t, "gr_spoken") => status = "listening")
    /\ [][\A t \in Tasks : Leaves(t) =>
             \/ Exec(t, "gr_locked") \/ Susp(t, "gr_eval")
             \/ Exec(t, "gr_spoken") /\ status' = status]_vars

\* brain.evaluate raised: the error was sent, the last status is listening
\* and the lock is free
C37_Witness ==
    /\ sent = <<"error">> /\ status = "listening"
    /\ lock.owner = NoTask /\ running # NoTask

\* the tasks suspended in the speech collaborator inside speak_response
Speaking == {t \in Tasks : At(t, "speak_tts")}

\* C32: at most one speak_response call is in progress in a session at any
\* time
C32_OneSpeaker == Cardinality(Speaking) <= 1

\* the sleep of checker t ends in this step
Fires(t) ==
    /\ Susp(t, "tc_sleep") /\ tasks[t].sleep = 0
    /\ tasks'[t].stack # tasks[t].stack

\* C33: a recovery timer whose sleep ends after stop() has taken effect ends
\* at once: no event is sent, no session field, status, lock or record of
\* the session changes, no collaborator and no stop() is entered.
C33_LateTimerInert ==
    [][\A t \in Timers : (Fires(t) /\ self.is_stopped) =>
         /\ tasks'[t].stack = <<>> /\ ~tasks'[t].fired
         /\ sent' = <<>> /\ running' = NoTask
         /\ UNCHANGED <<self, lock, status, obs, ntimers, nmsgs, components>>
         /\ \A u \in Tasks \ {t} : tasks'[u] = tasks[u]]_vars

\* a checker has ended without a notice although its loss was never
\* restored: its sleep ended after stop()
C33_Witness ==
    /\ self.is_stopped
    /\ \E t \in 1..ntimers :
         /\ tasks[t].stack = <<>> /\ ~tasks[t].fired
         /\ tasks[t].loss \notin obs.restored

\* the recovery timers created and still in their sleep
PendingTimers == {t \in Timers : At(t, "tc_start") \/ At(t, "tc_sleep")}

\* the checkers that have emitted the timeout closing notice
Notified == {t \in Timers : tasks[t].fired}

\* C34: a session has at most one recovery timer pending at any time and
\* emits the timeout closing notice at most once
C34_OneTimerOneNotice ==
    Cardinality(PendingTimers) <= 1 /\ Cardinality(Notified) <= 1

\* C35: a stopped session is neither active nor awaiting a reshare, and once
\* it is stopped no step makes it active or awaiting again
C35_StoppedNeverAwaiting ==
    /\ [](~(self.is_stopped /\ self.awaiting_screen_reshare))
    /\ [](~(self.is_stopped /\ self.is_active))
    /\ [][self.is_stopped =>
            ~self'.is_active /\ ~self'.awaiting_screen_reshare]_vars

\* a loss signal has been handled after stop()
C35_Witness ==
    /\ self.is_stopped /\ obs.stop_returned
    /\ Exec(Main, "ws_loop") /\ tasks[Main].msg.type = "screen_share_lost"

\* the stored visual context changes in this step
ContextChanges ==
    \/ self'.screen_context # self.screen_context
    \/ self'.screen_contexts # self.screen_contexts

\* C36: screen_context is empty while screen_contexts is empty and is its
\* last element otherwise; the two change only when handle_video_frame gets
\* an accepted frame with a non-empty description, which is appended; each
\* such change sends one screen_update, no step sends one otherwise, and its
\* context is the description, cut to 200 characters and followed by "..."
\* when it is longer.
C36_ContextIsLastUpdate ==
    /\ [](self.screen_context =
            IF self.screen_contexts = <<>> THEN 0
            ELSE self.screen_contexts[Len(self.screen_contexts)])
    /\ [][ContextChanges =>
            /\ Susp(Main, "video_done") /\ running' = Main
            /\ self'.screen_context \in Descriptions
            /\ self'.screen_contexts =
                 Append(self.screen_contexts, self'.screen_context)
            /\ sent' = <<"screen_update">>]_vars
    /\ [][(sent' = <<"screen_update">> /\ running' # running) =>
            ContextChanges]_vars
    /\ [](obs.context =
            IF self.screen_context > 200
            THEN [chars |-> 200, ellipsis |-> TRUE]
            ELSE [chars |-> self.screen_context, ellipsis |-> FALSE])

\* a description of 201 characters was stored after one of 200, and the
\* update shows 200 characters and the ellipsis
C36_Witness ==
    /\ self.screen_contexts = <<200, 201>>
    /\ sent = <<"screen_update">> /\ obs.context.ellipsis

\* a user_speaking message is handled in this step
HandlesUserSpeaking == Exec(Main, "ws_user_speaking")

\* C38: a user_speaking message sends stop_audio and clears is_ai_speaking
\* only if is_ai_speaking is true when it is handled, and then a
\* speak_response of the timeout task is in progress and no task is speaking
\* the opening or an evaluation answer
C38_OnlyDuringTimeoutSpeech ==
    /\ [][(HandlesUserSpeaking /\ ~self.is_ai_speaking) =>
            sent' = <<>> /\ self' = self]_vars
    /\ [][(HandlesUserSpeaking /\ self.is_ai_speaking) =>
            /\ \E t \in Timers : At(t, "speak_tts")
            /\ \A t \in Speaking : /\ ~Inside(t, "gr_spoken")
                                   /\ ~Inside(t, "start_spoken")]_vars

\* C39: after disconnect() has returned, and until the application calls
\* connect() again, the client stays disconnected: _is_connected is false,
\* there is no websocket and no receive task is alive
C39_StaysDisconnected ==
    deepgram.disconnected =>
        /\ ~deepgram._is_connected
        /\ deepgram._ws = NoConnection
        /\ \A r \in Connections : deepgram.loop[r] \notin Live

====
